---- MODULE Spec2Model ----
(***************************************************************************)
(* Model of src/main.py: an HTTP handler that reports, cleans up and       *)
(* purchases BigQuery reservation resources (capacity commitments,         *)
(* reservations, assignments) through the remote reservation service.      *)
(*                                                                         *)
(* Every remote call is one step of an invocation.  The remote service is  *)
(* the environment: any call may fail, with an exception that has a        *)
(* `message` attribute (GoogleAPICallError) or one that has none, and a    *)
(* call whose precondition does not hold can only fail.                    *)
(***************************************************************************)
EXTENDS Integers, Sequences, FiniteSets, TLC

\* ---------------------------------------------------------------- bounds
MaxInvocations == 2     \* requests handled by the running process
MaxRes == 2             \* reservations a scope holds at start
MaxAsg == 2             \* assignments under each such reservation
MaxCom == 2             \* commitments a scope holds at start
MaxAttempts == 3        \* attempts of one delete_commitment the model follows
NumSuffixes == 2        \* outcomes of get_random_string the model distinguishes

\* ------------------------------------------------------ program constants
DefaultSlots == 100
DefaultLocation == "EU"
Plan == "FLEX"

Procs == 1..MaxInvocations
Absent == "<absent>"
Projects == {"p1"}
Locations == {DefaultLocation, "US"}

\* client.common_location_path(project_id, location)
common_location_path(project_id, location) ==
    [project |-> project_id, location |-> location]

Scopes == {common_location_path(pr, l) : pr \in Projects, l \in Locations}

\* ------------------------------------------------------------ exceptions
\* An exception is identified by the call that raised it; `message` tells
\* whether the object has a `message` attribute.
Error(src, hasMessage) == [src |-> src, message |-> hasMessage]
NoError == Error("none", FALSE)
AttributeError == Error("AttributeError", FALSE)
ValueError == Error("ValueError", FALSE)
RetryError == Error("RetryError", TRUE)
\* what a remote call can raise
RemoteErrors(op) == {Error(op, TRUE), Error(op, FALSE)}

\* ------------------------------------------------------------- responses
NoName == [none |-> TRUE]
NoResponse == [status |-> 0]

make_response(status, severity, message) ==
    [status |-> status, severity |-> severity, message |-> message,
     error |-> NoError, text |-> "", log |-> <<>>,
     commitment |-> NoName, reservation |-> NoName, assignment |-> NoName]

\* e.message when the attribute exists, str(e) otherwise; always 500/error
handle_exception(e) ==
    [make_response(500, "error", "exception") EXCEPT
        !.error = e,
        !.text = IF e.message THEN "e.message" ELSE "str(e)"]

\* -------------------------------------------------------------- requests
\* slots as it arrives in the JSON body: absent, an integer, a number with
\* a fractional part (in tenths), or something int() rejects.
SlotsValues ==
    {[k |-> "absent"], [k |-> "float", tenths |-> 25], [k |-> "bad", tenths |-> 0]}

\* data.get('slots', 100)
get_slots(v) == IF v.k = "absent" THEN [k |-> "int", tenths |-> DefaultSlots * 10] ELSE v

\* int(slots): truncation; raises ValueError on a non-numeric value
int_ok(v) == v.k # "bad"
int(v) == v.tenths \div 10

NoBody ==
    [json |-> FALSE, project_id |-> Absent, location |-> Absent,
     slots |-> [k |-> "absent"], operation |-> Absent]

\* slots is varied where the handler can read it (before the dispatch fails,
\* or in a purchase)
Requests ==
    {NoBody} \cup
    [json : {TRUE}, project_id : {Absent},
     location : {Absent, "US"}, slots : SlotsValues,
     operation : {Absent, "report", "cleanup", "purchase", "bogus"}] \cup
    [json : {TRUE}, project_id : Projects,
     location : {Absent, "US"}, slots : SlotsValues,
     operation : {"purchase"}] \cup
    [json : {TRUE}, project_id : Projects,
     location : {Absent, "US"}, slots : {[k |-> "absent"]},
     operation : {Absent, "report", "cleanup", "bogus"}]

\* ------------------------------------------------------------ the state
VARIABLES
    commitments,        \* remote state: capacity commitments
    reservations,       \* remote state: reservations
    assignments,        \* remote state: assignments
    serial,             \* remote state: next server-assigned identifier
    reservation_name,   \* default of create_reservation_and_assignment's
                        \* reservation_name parameter
    pc,                 \* per invocation: position in the handler
    request,            \* per invocation: the request received
    local,              \* per invocation: local variables
    calls,              \* per invocation: remote calls issued so far
    response,           \* per invocation: the response produced
    pre,                \* per invocation: remote state when it started
    used,               \* reservation_id of every CreateReservationRequest sent
    purchased           \* the names every successful purchase has answered with

vars == <<commitments, reservations, assignments, serial, reservation_name,
          pc, request, local, calls, response, pre, used, purchased>>

remote == <<commitments, reservations, assignments, serial>>

\* ------------------------------------------------------ remote resources
OldId(i) == [src |-> "old", n |-> i]
ServerId(i) == [src |-> "srv", n |-> i]

\* get_random_string(): one of the outcomes the model distinguishes
get_random_string == 1..NumSuffixes

\* get_reservation_name(): 'reservation-<time>-<random string>'
get_reservation_name == {[src |-> "gen", n |-> s] : s \in get_random_string}

CapacityCommitment(scope, id, slots) ==
    [name |-> [scope |-> scope, id |-> id], plan |-> Plan, slot_count |-> slots]

\* variant: the reservation is configured with the default capacity
Reservation_default_capacity(scope, id, slots) ==
    [name |-> [scope |-> scope, id |-> id], slot_capacity |-> DefaultSlots,
     ignore_idle_slots |-> FALSE]

Reservation(scope, id, slots) ==
    [name |-> [scope |-> scope, id |-> id], slot_capacity |-> slots,
     ignore_idle_slots |-> FALSE]

Assignment(parent, id, project_id) ==
    [name |-> [parent |-> parent, id |-> id], job_type |-> "QUERY",
     assignee |-> <<"projects", project_id>>]

\* the resources a scope holds before the process handles its first request
OldCommitments(s, m) == {CapacityCommitment(s, OldId(i), DefaultSlots) : i \in 1..m}
OldReservations(s, n) == {Reservation(s, OldId(i), DefaultSlots) : i \in 1..n}
OldAssignments(s, n, a) ==
    {Assignment(r.name, OldId(j), s.project) : r \in OldReservations(s, n), j \in 1..a}

\* A listing returns the resources in the order of their names.  The
\* resources a scope holds at start differ only in their names, so every
\* other order of them is this one with the resources renamed.
IdRank(id) == CASE id.src = "old" -> 0 [] id.src = "gen" -> 1 [] OTHER -> 2
IdBefore(a, b) == IF a.src = b.src THEN a.n < b.n ELSE IdRank(a) < IdRank(b)
Listing(S) ==
    CHOOSE f \in [1..Cardinality(S) -> S] :
        \A i, j \in 1..Cardinality(S) : i < j => IdBefore(f[i].name.id, f[j].name.id)

\* the listings of the remote service
list_capacity_commitments(scope) == {c \in commitments : c.name.scope = scope}
list_reservations(scope) == {r \in reservations : r.name.scope = scope}
list_assignments(parent) == {a \in assignments : a.name.parent = parent}

\* one remote call as the invocation saw it
Call(op, target, err, result) ==
    [op |-> op, target |-> target, ok |-> (err = NoError), err |-> err,
     final |-> TRUE, result |-> result]

NoLocal ==
    [project_id |-> Absent, location |-> Absent, slots |-> 0,
     commitment |-> NoName, reservation |-> NoName, assignment |-> NoName,
     reservation_name |-> NoName,
     reservations |-> <<>>, assignments |-> <<>>, commitments |-> <<>>,
     log |-> <<>>, e |-> NoError, attempts |-> 0]

\* what the scopes hold at start: the default location holds n reservations
\* with a assignments each and m commitments, every other scope one of each
Shapes ==
    {sh \in [Scopes -> [n : 0..MaxRes, a : 0..MaxAsg, m : 0..MaxCom]] :
        \A t \in Scopes :
            t.location # DefaultLocation => sh[t] = [n |-> 1, a |-> 1, m |-> 1]}

NoPre == [commitments |-> {}, reservations |-> {}, assignments |-> {}]

\* the serial specification starts from the smaller scopes
SerialShapes ==
    {sh \in Shapes : \A t \in Scopes : sh[t].n <= 1 /\ sh[t].a <= 1 /\ sh[t].m <= 1}

\* the state when the process has been started and has handled no request
InitWith(shapes) ==
    /\ \E shape \in shapes :
         /\ commitments = UNION {OldCommitments(s, shape[s].m) : s \in Scopes}
         /\ reservations = UNION {OldReservations(s, shape[s].n) : s \in Scopes}
         /\ assignments = UNION {OldAssignments(s, shape[s].n, shape[s].a) : s \in Scopes}
    /\ serial = 1
    /\ reservation_name \in get_reservation_name
    /\ pc = [p \in Procs |-> "idle"]
    /\ request = [p \in Procs |-> NoBody]
    /\ local = [p \in Procs |-> NoLocal]
    /\ calls = [p \in Procs |-> <<>>]
    /\ response = [p \in Procs |-> NoResponse]
    /\ pre = [p \in Procs |-> NoPre]
    /\ used = <<>>
    /\ purchased = {}

Init == InitWith(Shapes)

InitSerial == InitWith(SerialShapes)

\* ------------------------------------------------------------- plumbing
Scope(p) == common_location_path(local[p].project_id, local[p].location)

Issue(p, c) == calls' = [calls EXCEPT ![p] = Append(@, c)]

Goto(p, label) ==
    /\ pc' = [pc EXCEPT ![p] = label]
    /\ UNCHANGED response

\* the handler returns r, or the framework turns an exception into r
Return(p, r) ==
    /\ pc' = [pc EXCEPT ![p] = "done"]
    /\ response' = [response EXCEPT ![p] = r]

\* the first request the process handles
First(p) == \A q \in Procs : pc[q] = "idle" /\ q >= p

\* the process handles one request at a time
Quiescent(p) ==
    /\ \A q \in Procs : q # p => pc[q] \in {"idle", "done"}
    /\ \A q \in Procs : q < p => pc[q] # "idle"

\* nothing of an invocation that has returned is kept by the process
Forget(f, init) == [q \in Procs |-> IF pc[q] = "done" THEN init ELSE f[q]]

\* ------------------------------------------------------------ main_http
\* variant: project_id is read without the check that it is present
main_http_no_project_check(p) ==
    /\ pc[p] = "idle"
    /\ \E r \in Requests :
         LET location == IF r.location = Absent THEN DefaultLocation ELSE r.location
             slots == get_slots(r.slots)
             l == [NoLocal EXCEPT !.project_id = r.project_id, !.location = location]
             Answer(resp) ==
                 /\ pc' = [pc EXCEPT ![p] = "done"]
                 /\ response' = [Forget(response, NoResponse) EXCEPT ![p] = resp]
                 /\ local' = Forget(local, NoLocal)
             Dispatch(label, loc) ==
                 /\ pc' = [pc EXCEPT ![p] = label]
                 /\ response' = Forget(response, NoResponse)
                 /\ local' = [Forget(local, NoLocal) EXCEPT ![p] = loc]
         IN  /\ request' = [Forget(request, NoBody) EXCEPT ![p] = r]
             /\ pre' = [Forget(pre, NoPre) EXCEPT ![p] = [commitments |-> commitments,
                                                          reservations |-> reservations,
                                                          assignments |-> assignments]]
             /\ IF ~r.json
                  THEN Answer(make_response(400, "error", "json request is required"))
                ELSE IF r.operation = Absent
                  THEN Answer(make_response(200, "info", "Available operations"))
                ELSE IF r.operation = "report"
                  THEN Dispatch("report_get_reservations", l)
                ELSE IF r.operation = "cleanup"
                  THEN Dispatch("cleanup_get_reservations", l)
                ELSE IF r.operation = "purchase"
                  THEN IF int_ok(slots)
                         THEN Dispatch("purchase_commitment", [l EXCEPT !.slots = int(slots)])
                         ELSE Answer(handle_exception(ValueError))
                ELSE Answer(make_response(400, "info", "Unsupported operation"))
    /\ calls' = Forget(calls, <<>>)
    /\ UNCHANGED <<remote, reservation_name, used, purchased>>

main_http(p) ==
    /\ pc[p] = "idle"
    /\ \E r \in Requests :
         LET location == IF r.location = Absent THEN DefaultLocation ELSE r.location
             slots == get_slots(r.slots)
             l == [NoLocal EXCEPT !.project_id = r.project_id, !.location = location]
             Answer(resp) ==
                 /\ pc' = [pc EXCEPT ![p] = "done"]
                 /\ response' = [Forget(response, NoResponse) EXCEPT ![p] = resp]
                 /\ local' = Forget(local, NoLocal)
             Dispatch(label, loc) ==
                 /\ pc' = [pc EXCEPT ![p] = label]
                 /\ response' = Forget(response, NoResponse)
                 /\ local' = [Forget(local, NoLocal) EXCEPT ![p] = loc]
         IN  /\ request' = [Forget(request, NoBody) EXCEPT ![p] = r]
             /\ pre' = [Forget(pre, NoPre) EXCEPT ![p] = [commitments |-> commitments,
                                                          reservations |-> reservations,
                                                          assignments |-> assignments]]
             /\ IF ~r.json
                  THEN Answer(make_response(400, "error", "json request is required"))
                ELSE IF r.project_id = Absent
                  THEN Answer(make_response(400, "error", "project_id is required in the json request"))
                ELSE IF r.operation = Absent
                  THEN Answer(make_response(200, "info", "Available operations"))
                ELSE IF r.operation = "report"
                  THEN Dispatch("report_get_reservations", l)
                ELSE IF r.operation = "cleanup"
                  THEN Dispatch("cleanup_get_reservations", l)
                ELSE IF r.operation = "purchase"
                  THEN IF int_ok(slots)
                         THEN Dispatch("purchase_commitment", [l EXCEPT !.slots = int(slots)])
                         ELSE Answer(handle_exception(ValueError))
                ELSE Answer(make_response(400, "info", "Unsupported operation"))
    /\ calls' = Forget(calls, <<>>)
    /\ UNCHANGED <<remote, reservation_name, used, purchased>>

\* --------------------------------------------------------- purchase path
\* variant: the failure of the commitment purchase is swallowed and the
\* transaction goes on with the commitment it asked for
purchase_commitment_swallowed(p) ==
    /\ pc[p] = "purchase_commitment"
    /\ LET c == CapacityCommitment(Scope(p), ServerId(serial), local[p].slots)
       IN  \/ /\ commitments' = commitments \cup {c}
              /\ serial' = serial + 1
              /\ Issue(p, Call("create_capacity_commitment", Scope(p), NoError, <<>>))
           \/ \E e \in RemoteErrors("create_capacity_commitment") :
                /\ Issue(p, Call("create_capacity_commitment", Scope(p), e, <<>>))
                /\ UNCHANGED <<commitments, serial>>
    /\ local' = [local EXCEPT
         ![p].commitment = CapacityCommitment(Scope(p), ServerId(serial), local[p].slots),
         ![p].reservation_name = reservation_name]
    /\ Goto(p, "create_reservation")
    /\ UNCHANGED <<reservations, assignments, reservation_name, request, pre, used, purchased>>

\* purchase_http, line 108: purchase_commitment(client, project_id, location, slots)
purchase_commitment(p) ==
    /\ pc[p] = "purchase_commitment"
    /\ LET c == CapacityCommitment(Scope(p), ServerId(serial), local[p].slots)
       IN  \/ /\ commitments' = commitments \cup {c}
              /\ serial' = serial + 1
              /\ Issue(p, Call("create_capacity_commitment", Scope(p), NoError, <<>>))
              \* line 112 binds the default value of reservation_name
              /\ local' = [local EXCEPT ![p].commitment = c,
                                        ![p].reservation_name = reservation_name]
              /\ Goto(p, "create_reservation")
           \/ \E e \in RemoteErrors("create_capacity_commitment") :
                /\ Issue(p, Call("create_capacity_commitment", Scope(p), e, <<>>))
                /\ Return(p, handle_exception(e))
                /\ UNCHANGED <<commitments, serial, local>>
    /\ UNCHANGED <<reservations, assignments, reservation_name, request, pre, used, purchased>>

\* variant: a failed reservation creation is answered without the rollback
\* of the commitment
create_reservation_no_rollback(p) ==
    /\ pc[p] = "create_reservation"
    /\ LET r == Reservation(Scope(p), local[p].reservation_name, local[p].slots)
       IN  \/ /\ \A x \in reservations : x.name # r.name
              /\ reservations' = reservations \cup {r}
              /\ Issue(p, Call("create_reservation", r.name, NoError, <<>>))
              /\ local' = [local EXCEPT ![p].reservation = r]
              /\ Goto(p, "create_assignment")
           \/ \E e \in RemoteErrors("create_reservation") :
                /\ Issue(p, Call("create_reservation", r.name, e, <<>>))
                /\ local' = [local EXCEPT ![p].e = e]
                /\ Return(p, handle_exception(e))
                /\ UNCHANGED reservations
    /\ UNCHANGED <<commitments, assignments, serial, reservation_name, request, pre>>
    /\ used' = Append(used, local[p].reservation_name)
    /\ UNCHANGED purchased

\* create_reservation_and_assignment, lines 220-228
create_reservation(p) ==
    /\ pc[p] = "create_reservation"
    /\ LET r == Reservation(Scope(p), local[p].reservation_name, local[p].slots)
       IN  \/ /\ \A x \in reservations : x.name # r.name
              /\ reservations' = reservations \cup {r}
              /\ Issue(p, Call("create_reservation", r.name, NoError, <<>>))
              /\ local' = [local EXCEPT ![p].reservation = r]
              /\ Goto(p, "create_assignment")
           \/ \E e \in RemoteErrors("create_reservation") :
                \* nothing is caught here: the exception reaches purchase_http's handler
                /\ Issue(p, Call("create_reservation", r.name, e, <<>>))
                /\ local' = [local EXCEPT ![p].e = e]
                /\ Goto(p, "rollback_commitment")
                /\ UNCHANGED reservations
    /\ UNCHANGED <<commitments, assignments, serial, reservation_name, request, pre>>
    /\ used' = Append(used, local[p].reservation_name)
    /\ UNCHANGED purchased

\* variant: a failed createAssignment is sent again
create_assignment_reissued(p) ==
    /\ pc[p] = "create_assignment"
    /\ LET parent == local[p].reservation.name
           a == Assignment(parent, ServerId(serial), local[p].project_id)
       IN  \/ /\ \E x \in reservations : x.name = parent
              /\ assignments' = assignments \cup {a}
              /\ serial' = serial + 1
              /\ Issue(p, Call("create_assignment", parent, NoError, <<>>))
              /\ local' = [local EXCEPT ![p].assignment = a]
              /\ Return(p, [make_response(200, "info", "Successfully purchased commitment") EXCEPT
                               !.commitment = local[p].commitment.name,
                               !.reservation = local[p].reservation.name,
                               !.assignment = a.name])
              /\ purchased' = purchased \cup
                   {[commitment |-> local[p].commitment.name,
                     reservation |-> local[p].reservation.name,
                     assignment |-> a.name]}
           \/ \E e \in RemoteErrors("create_assignment") :
                /\ Issue(p, Call("create_assignment", parent, e, <<>>))
                /\ UNCHANGED <<assignments, serial, purchased>>
                /\ local' = [local EXCEPT ![p].e = e]
                /\ Goto(p, "create_assignment")
    /\ UNCHANGED <<commitments, reservations, reservation_name, request, pre, used>>

\* create_reservation_and_assignment, lines 230-234, and create_assignment
create_assignment(p) ==
    /\ pc[p] = "create_assignment"
    /\ LET parent == local[p].reservation.name
           a == Assignment(parent, ServerId(serial), local[p].project_id)
       IN  \/ /\ \E x \in reservations : x.name = parent
              /\ assignments' = assignments \cup {a}
              /\ serial' = serial + 1
              /\ Issue(p, Call("create_assignment", parent, NoError, <<>>))
              /\ local' = [local EXCEPT ![p].assignment = a]
              /\ Return(p, [make_response(200, "info", "Successfully purchased commitment") EXCEPT
                               !.commitment = local[p].commitment.name,
                               !.reservation = local[p].reservation.name,
                               !.assignment = a.name])
              /\ purchased' = purchased \cup
                   {[commitment |-> local[p].commitment.name,
                     reservation |-> local[p].reservation.name,
                     assignment |-> a.name]}
           \/ \E e \in RemoteErrors("create_assignment") :
                /\ Issue(p, Call("create_assignment", parent, e, <<>>))
                /\ UNCHANGED <<assignments, serial, purchased>>
                \* line 234 reads e.message before the rollback
                /\ IF e.message
                     THEN /\ local' = [local EXCEPT ![p].e = e]
                          /\ Goto(p, "rollback_reservation")
                     ELSE /\ local' = [local EXCEPT ![p].e = AttributeError]
                          /\ Goto(p, "rollback_commitment")
    /\ UNCHANGED <<commitments, reservations, reservation_name, request, pre, used>>

\* variant: a failure of the rollback delete is caught and the original
\* exception is re-raised
rollback_reservation_guarded(p) ==
    /\ pc[p] = "rollback_reservation"
    /\ LET name == local[p].reservation.name
       IN  \/ /\ \E x \in reservations : x.name = name
              /\ list_assignments(name) = {}
              /\ reservations' = {x \in reservations : x.name # name}
              /\ Issue(p, Call("delete_reservation", name, NoError, <<>>))
              \* `raise` re-raises the exception being handled
              /\ UNCHANGED local
           \/ \E e \in RemoteErrors("delete_reservation") :
                /\ Issue(p, Call("delete_reservation", name, e, <<>>))
                /\ UNCHANGED <<local, reservations>>
    /\ Goto(p, "rollback_commitment")
    /\ UNCHANGED <<commitments, assignments, serial, reservation_name, request, pre, used, purchased>>

\* create_reservation_and_assignment, lines 236-237
rollback_reservation(p) ==
    /\ pc[p] = "rollback_reservation"
    /\ LET name == local[p].reservation.name
       IN  \/ /\ \E x \in reservations : x.name = name
              /\ list_assignments(name) = {}
              /\ reservations' = {x \in reservations : x.name # name}
              /\ Issue(p, Call("delete_reservation", name, NoError, <<>>))
              \* `raise` re-raises the exception being handled
              /\ UNCHANGED local
           \/ \E e \in RemoteErrors("delete_reservation") :
                /\ Issue(p, Call("delete_reservation", name, e, <<>>))
                /\ local' = [local EXCEPT ![p].e = e]
                /\ UNCHANGED reservations
    /\ Goto(p, "rollback_commitment")
    /\ UNCHANGED <<commitments, assignments, serial, reservation_name, request, pre, used, purchased>>

\* One attempt of client.delete_capacity_commitment under
\* Retry(deadline=90, predicate=Exception, maximum=2): every exception is
\* retried until the deadline has passed, and then RetryError is raised.
\* outcome: "ok", "retry" or "giveup".
delete_commitment(p, name, outcome, e) ==
    IF outcome = "ok"
      THEN /\ \E c \in commitments : c.name = name
           /\ commitments' = {c \in commitments : c.name # name}
           /\ Issue(p, Call("delete_capacity_commitment", name, NoError, <<>>))
    ELSE IF outcome = "retry"
      THEN /\ local[p].attempts + 1 < MaxAttempts
           /\ Issue(p, [Call("delete_capacity_commitment", name, e, <<>>) EXCEPT !.final = FALSE])
           /\ UNCHANGED commitments
    ELSE /\ Issue(p, Call("delete_capacity_commitment", name, e, <<>>))
         /\ UNCHANGED commitments

\* variant: the rollback deletes the first commitment the scope lists
rollback_commitment_first_listed(p) ==
    /\ pc[p] = "rollback_commitment"
    /\ LET name == Listing(list_capacity_commitments(Scope(p)))[1].name
       IN  \/ /\ delete_commitment(p, name, "ok", NoError)
              /\ local' = [local EXCEPT ![p].attempts = 0]
              /\ Return(p, handle_exception(local[p].e))
           \/ \E e \in RemoteErrors("delete_capacity_commitment") :
                \/ /\ delete_commitment(p, name, "retry", e)
                   /\ local' = [local EXCEPT ![p].attempts = @ + 1]
                   /\ Goto(p, "rollback_commitment")
                \/ /\ delete_commitment(p, name, "giveup", e)
                   /\ local' = [local EXCEPT ![p].attempts = 0]
                   /\ Return(p, handle_exception(RetryError))
    /\ UNCHANGED <<reservations, assignments, serial, reservation_name, request, pre, used, purchased>>

\* variant: the rollback deletes the last commitment the scope lists
rollback_commitment_last_listed(p) ==
    /\ pc[p] = "rollback_commitment"
    /\ LET cs == Listing(list_capacity_commitments(Scope(p)))
           name == cs[Len(cs)].name
       IN  \/ /\ delete_commitment(p, name, "ok", NoError)
              /\ local' = [local EXCEPT ![p].attempts = 0]
              /\ Return(p, handle_exception(local[p].e))
           \/ \E e \in RemoteErrors("delete_capacity_commitment") :
                \/ /\ delete_commitment(p, name, "retry", e)
                   /\ local' = [local EXCEPT ![p].attempts = @ + 1]
                   /\ Goto(p, "rollback_commitment")
                \/ /\ delete_commitment(p, name, "giveup", e)
                   /\ local' = [local EXCEPT ![p].attempts = 0]
                   /\ Return(p, handle_exception(RetryError))
    /\ UNCHANGED <<reservations, assignments, serial, reservation_name, request, pre, used, purchased>>

\* purchase_http, lines 118-121
rollback_commitment(p) ==
    /\ pc[p] = "rollback_commitment"
    /\ LET name == local[p].commitment.name
       IN  \/ /\ delete_commitment(p, name, "ok", NoError)
              /\ local' = [local EXCEPT ![p].attempts = 0]
              /\ Return(p, handle_exception(local[p].e))
           \/ \E e \in RemoteErrors("delete_capacity_commitment") :
                \/ /\ delete_commitment(p, name, "retry", e)
                   /\ local' = [local EXCEPT ![p].attempts = @ + 1]
                   /\ Goto(p, "rollback_commitment")
                \/ /\ delete_commitment(p, name, "giveup", e)
                   /\ local' = [local EXCEPT ![p].attempts = 0]
                   /\ Return(p, handle_exception(RetryError))
    /\ UNCHANGED <<reservations, assignments, serial, reservation_name, request, pre, used, purchased>>

\* ----------------------------------------------------------- report path
\* f"Reservation {name}", f"Deleted assignment {name}", ...
LogEntry(text, name) == [text |-> text, name |-> name]

\* report, line 134: get_reservations(client, project_id, location)
report_get_reservations(p) ==
    /\ pc[p] = "report_get_reservations"
    /\ \/ LET rs == Listing(list_reservations(Scope(p))) IN
            /\ Issue(p, Call("list_reservations", Scope(p), NoError, rs))
            /\ local' = [local EXCEPT ![p].reservations = rs]
            /\ Goto(p, IF rs = <<>> THEN "report_get_commitments" ELSE "report_get_assignments")
       \/ \E e \in RemoteErrors("list_reservations") :
            /\ Issue(p, Call("list_reservations", Scope(p), e, <<>>))
            /\ Return(p, handle_exception(e))
            /\ UNCHANGED local
    /\ UNCHANGED <<remote, reservation_name, request, pre, used, purchased>>

\* variant: the reservation is logged after its assignments
report_get_assignments_reservation_last(p) ==
    /\ pc[p] = "report_get_assignments"
    /\ LET reservation == Head(local[p].reservations)
           rest == Tail(local[p].reservations)
       IN  \/ LET as == Listing(list_assignments(reservation.name)) IN
                /\ Issue(p, Call("list_assignments", reservation.name, NoError, as))
                /\ local' = [local EXCEPT
                     ![p].reservations = rest,
                     ![p].log = @ \o [i \in 1..Len(as) |-> LogEntry("Assignment", as[i].name)]
                                  \o <<LogEntry("Reservation", reservation.name)>>]
                /\ Goto(p, IF rest = <<>> THEN "report_get_commitments" ELSE "report_get_assignments")
           \/ \E e \in RemoteErrors("list_assignments") :
                /\ Issue(p, Call("list_assignments", reservation.name, e, <<>>))
                /\ Return(p, handle_exception(e))
                /\ UNCHANGED local
    /\ UNCHANGED <<remote, reservation_name, request, pre, used, purchased>>

\* report, lines 135-137: one pass of the loop over the reservations
report_get_assignments(p) ==
    /\ pc[p] = "report_get_assignments"
    /\ LET reservation == Head(local[p].reservations)
           rest == Tail(local[p].reservations)
       IN  \/ LET as == Listing(list_assignments(reservation.name)) IN
                /\ Issue(p, Call("list_assignments", reservation.name, NoError, as))
                /\ local' = [local EXCEPT
                     ![p].reservations = rest,
                     ![p].log = @ \o <<LogEntry("Reservation", reservation.name)>>
                                  \o [i \in 1..Len(as) |-> LogEntry("Assignment", as[i].name)]]
                /\ Goto(p, IF rest = <<>> THEN "report_get_commitments" ELSE "report_get_assignments")
           \/ \E e \in RemoteErrors("list_assignments") :
                /\ Issue(p, Call("list_assignments", reservation.name, e, <<>>))
                /\ Return(p, handle_exception(e))
                /\ UNCHANGED local
    /\ UNCHANGED <<remote, reservation_name, request, pre, used, purchased>>

\* report, lines 139-142, and report_http
report_get_commitments(p) ==
    /\ pc[p] = "report_get_commitments"
    /\ \/ LET cs == Listing(list_capacity_commitments(Scope(p))) IN
            LET log == local[p].log \o [i \in 1..Len(cs) |-> LogEntry("Commitment", cs[i].name)]
            IN  /\ Issue(p, Call("list_capacity_commitments", Scope(p), NoError, cs))
                /\ local' = [local EXCEPT ![p].log = log]
                /\ Return(p, [make_response(200, "info", "Successfully ran report") EXCEPT !.log = log])
       \/ \E e \in RemoteErrors("list_capacity_commitments") :
            /\ Issue(p, Call("list_capacity_commitments", Scope(p), e, <<>>))
            /\ Return(p, handle_exception(e))
            /\ UNCHANGED local
    /\ UNCHANGED <<remote, reservation_name, request, pre, used, purchased>>

\* ---------------------------------------------------------- cleanup path
\* cleanup, line 147: get_reservations(client, project_id, location)
cleanup_get_reservations(p) ==
    /\ pc[p] = "cleanup_get_reservations"
    /\ \/ LET rs == Listing(list_reservations(Scope(p))) IN
            /\ Issue(p, Call("list_reservations", Scope(p), NoError, rs))
            /\ local' = [local EXCEPT ![p].reservations = rs]
            /\ Goto(p, IF rs = <<>> THEN "cleanup_get_commitments" ELSE "cleanup_get_assignments")
       \/ \E e \in RemoteErrors("list_reservations") :
            /\ Issue(p, Call("list_reservations", Scope(p), e, <<>>))
            /\ Return(p, handle_exception(e))
            /\ UNCHANGED local
    /\ UNCHANGED <<remote, reservation_name, request, pre, used, purchased>>

\* variant: the reservation is deleted before its assignments
cleanup_get_assignments_reservation_first(p) ==
    /\ pc[p] = "cleanup_get_assignments"
    /\ LET reservation == Head(local[p].reservations)
       IN  \/ LET as == Listing(list_assignments(reservation.name)) IN
                /\ Issue(p, Call("list_assignments", reservation.name, NoError, as))
                /\ local' = [local EXCEPT ![p].assignments = as]
                /\ Goto(p, "cleanup_delete_reservation")
           \/ \E e \in RemoteErrors("list_assignments") :
                /\ Issue(p, Call("list_assignments", reservation.name, e, <<>>))
                /\ Return(p, handle_exception(e))
                /\ UNCHANGED local
    /\ UNCHANGED <<remote, reservation_name, request, pre, used, purchased>>

\* cleanup, line 148: get_assignments(client, reservation.name)
cleanup_get_assignments(p) ==
    /\ pc[p] = "cleanup_get_assignments"
    /\ LET reservation == Head(local[p].reservations)
       IN  \/ LET as == Listing(list_assignments(reservation.name)) IN
                /\ Issue(p, Call("list_assignments", reservation.name, NoError, as))
                /\ local' = [local EXCEPT ![p].assignments = as]
                /\ Goto(p, IF as = <<>> THEN "cleanup_delete_reservation" ELSE "cleanup_delete_assignment")
           \/ \E e \in RemoteErrors("list_assignments") :
                /\ Issue(p, Call("list_assignments", reservation.name, e, <<>>))
                /\ Return(p, handle_exception(e))
                /\ UNCHANGED local
    /\ UNCHANGED <<remote, reservation_name, request, pre, used, purchased>>

\* variant: a failed assignment delete is logged and cleanup goes on
cleanup_delete_assignment_best_effort(p) ==
    /\ pc[p] = "cleanup_delete_assignment"
    /\ LET name == Head(local[p].assignments).name
           rest == Tail(local[p].assignments)
       IN  /\ \/ /\ \E a \in assignments : a.name = name
                 /\ assignments' = {a \in assignments : a.name # name}
                 /\ Issue(p, Call("delete_assignment", name, NoError, <<>>))
              \/ \E e \in RemoteErrors("delete_assignment") :
                   /\ Issue(p, Call("delete_assignment", name, e, <<>>))
                   /\ UNCHANGED assignments
           /\ local' = [local EXCEPT
                ![p].assignments = rest,
                ![p].log = Append(@, LogEntry("Deleted assignment", name))]
           /\ Goto(p, IF rest = <<>> THEN "cleanup_delete_reservation" ELSE "cleanup_delete_assignment")
    /\ UNCHANGED <<commitments, reservations, serial, reservation_name, request, pre, used, purchased>>

\* cleanup, line 149: log.append(delete_assignment(client, assignment.name))
cleanup_delete_assignment(p) ==
    /\ pc[p] = "cleanup_delete_assignment"
    /\ LET name == Head(local[p].assignments).name
           rest == Tail(local[p].assignments)
       IN  \/ /\ \E a \in assignments : a.name = name
              /\ assignments' = {a \in assignments : a.name # name}
              /\ Issue(p, Call("delete_assignment", name, NoError, <<>>))
              /\ local' = [local EXCEPT
                   ![p].assignments = rest,
                   ![p].log = Append(@, LogEntry("Deleted assignment", name))]
              /\ Goto(p, IF rest = <<>> THEN "cleanup_delete_reservation" ELSE "cleanup_delete_assignment")
           \/ \E e \in RemoteErrors("delete_assignment") :
                /\ Issue(p, Call("delete_assignment", name, e, <<>>))
                /\ Return(p, handle_exception(e))
                /\ UNCHANGED <<assignments, local>>
    /\ UNCHANGED <<commitments, reservations, serial, reservation_name, request, pre, used, purchased>>

\* variant: a failed reservation delete is logged and cleanup goes on
cleanup_delete_reservation_best_effort(p) ==
    /\ pc[p] = "cleanup_delete_reservation"
    /\ LET name == Head(local[p].reservations).name
           rest == Tail(local[p].reservations)
       IN  /\ \/ /\ \E r \in reservations : r.name = name
                 /\ list_assignments(name) = {}
                 /\ reservations' = {r \in reservations : r.name # name}
                 /\ Issue(p, Call("delete_reservation", name, NoError, <<>>))
              \/ \E e \in RemoteErrors("delete_reservation") :
                   /\ Issue(p, Call("delete_reservation", name, e, <<>>))
                   /\ UNCHANGED reservations
           /\ local' = [local EXCEPT
                ![p].reservations = rest,
                ![p].log = Append(@, LogEntry("Deleted reservation", name))]
           /\ Goto(p, IF rest = <<>> THEN "cleanup_get_commitments" ELSE "cleanup_get_assignments")
    /\ UNCHANGED <<commitments, assignments, serial, reservation_name, request, pre, used, purchased>>

\* cleanup, line 150: log.append(delete_reservation(client, reservation.name))
cleanup_delete_reservation(p) ==
    /\ pc[p] = "cleanup_delete_reservation"
    /\ LET name == Head(local[p].reservations).name
           rest == Tail(local[p].reservations)
       IN  \/ /\ \E r \in reservations : r.name = name
              /\ list_assignments(name) = {}
              /\ reservations' = {r \in reservations : r.name # name}
              /\ Issue(p, Call("delete_reservation", name, NoError, <<>>))
              /\ local' = [local EXCEPT
                   ![p].reservations = rest,
                   ![p].log = Append(@, LogEntry("Deleted reservation", name))]
              /\ Goto(p, IF rest = <<>> THEN "cleanup_get_commitments" ELSE "cleanup_get_assignments")
           \/ \E e \in RemoteErrors("delete_reservation") :
                /\ Issue(p, Call("delete_reservation", name, e, <<>>))
                /\ Return(p, handle_exception(e))
                /\ UNCHANGED <<reservations, local>>
    /\ UNCHANGED <<commitments, assignments, serial, reservation_name, request, pre, used, purchased>>

\* variant: cleanup lists the commitments and deletes all but the first
cleanup_get_commitments_skip_first(p) ==
    /\ pc[p] = "cleanup_get_commitments"
    /\ \/ LET cs == Listing(list_capacity_commitments(Scope(p))) IN
            /\ Issue(p, Call("list_capacity_commitments", Scope(p), NoError, cs))
            /\ local' = [local EXCEPT ![p].commitments = IF cs = <<>> THEN cs ELSE Tail(cs)]
            /\ IF cs = <<>> \/ Tail(cs) = <<>>
                 THEN Return(p, [make_response(200, "info", "Successfully ran cleanup") EXCEPT
                                    !.log = local[p].log])
                 ELSE Goto(p, "cleanup_delete_commitment")
       \/ \E e \in RemoteErrors("list_capacity_commitments") :
            /\ Issue(p, Call("list_capacity_commitments", Scope(p), e, <<>>))
            /\ Return(p, handle_exception(e))
            /\ UNCHANGED local
    /\ UNCHANGED <<remote, reservation_name, request, pre, used, purchased>>

\* cleanup, line 152: get_commitments(client, project_id, location);
\* cleanup_http answers when there is nothing to delete
cleanup_get_commitments(p) ==
    /\ pc[p] = "cleanup_get_commitments"
    /\ \/ LET cs == Listing(list_capacity_commitments(Scope(p))) IN
            /\ Issue(p, Call("list_capacity_commitments", Scope(p), NoError, cs))
            /\ local' = [local EXCEPT ![p].commitments = cs]
            /\ IF cs = <<>>
                 THEN Return(p, [make_response(200, "info", "Successfully ran cleanup") EXCEPT
                                    !.log = local[p].log])
                 ELSE Goto(p, "cleanup_delete_commitment")
       \/ \E e \in RemoteErrors("list_capacity_commitments") :
            /\ Issue(p, Call("list_capacity_commitments", Scope(p), e, <<>>))
            /\ Return(p, handle_exception(e))
            /\ UNCHANGED local
    /\ UNCHANGED <<remote, reservation_name, request, pre, used, purchased>>

\* cleanup, lines 153-155: log.append(delete_commitment(client, commitment.name)),
\* and cleanup_http after the last one
cleanup_delete_commitment(p) ==
    /\ pc[p] = "cleanup_delete_commitment"
    /\ LET name == Head(local[p].commitments).name
           rest == Tail(local[p].commitments)
           log == Append(local[p].log, LogEntry("Deleted commitment", name))
       IN  \/ /\ delete_commitment(p, name, "ok", NoError)
              /\ local' = [local EXCEPT ![p].commitments = rest, ![p].log = log,
                                        ![p].attempts = 0]
              /\ IF rest = <<>>
                   THEN Return(p, [make_response(200, "info", "Successfully ran cleanup") EXCEPT
                                      !.log = log])
                   ELSE Goto(p, "cleanup_delete_commitment")
           \/ \E e \in RemoteErrors("delete_capacity_commitment") :
                \/ /\ delete_commitment(p, name, "retry", e)
                   /\ local' = [local EXCEPT ![p].attempts = @ + 1]
                   /\ Goto(p, "cleanup_delete_commitment")
                \/ /\ delete_commitment(p, name, "giveup", e)
                   /\ local' = [local EXCEPT ![p].attempts = 0]
                   /\ Return(p, handle_exception(RetryError))
    /\ UNCHANGED <<reservations, assignments, serial, reservation_name, request, pre, used, purchased>>

\* ------------------------------------------------------- specification
\* one step of a request being handled
Step(p) ==
    \/ report_get_reservations(p)
    \/ report_get_assignments(p)
    \/ report_get_commitments(p)
    \/ cleanup_get_reservations(p)
    \/ cleanup_get_assignments(p)
    \/ cleanup_delete_assignment(p)
    \/ cleanup_delete_reservation(p)
    \/ cleanup_get_commitments(p)
    \/ cleanup_delete_commitment(p)
    \/ purchase_commitment(p)
    \/ create_reservation(p)
    \/ create_assignment(p)
    \/ rollback_reservation(p)
    \/ rollback_commitment(p)

\* a process that handles one request
Next ==
    \E p \in Procs :
        \/ First(p) /\ main_http(p)
        \/ Step(p)

Spec == Init /\ [][Next]_vars

\* a process that handles MaxInvocations requests one after the other
NextSerial ==
    \E p \in Procs :
        \/ Quiescent(p) /\ main_http(p)
        \/ Step(p)

SpecSerial == InitSerial /\ [][NextSerial]_vars

\* two invocations the platform runs at the same time in one process: both
\* are purchases of the default number of slots for the same project and
\* location, which holds one commitment and one assigned reservation
Racers == {1, 2}

RaceShapes ==
    {sh \in Shapes : \A t \in Scopes : sh[t].n = 1 /\ sh[t].a = 1 /\ sh[t].m = 1}

RaceRequests ==
    {r \in Requests : /\ r.json
                      /\ r.project_id = "p1"
                      /\ r.location = Absent
                      /\ r.operation = "purchase"
                      /\ r.slots = [k |-> "absent"]}

InitRace == InitWith(RaceShapes)

NextRace ==
    \E p \in Racers :
        \/ main_http(p) /\ request'[p] \in RaceRequests
        \/ purchase_commitment(p)
        \/ create_reservation(p)
        \/ create_assignment(p)
        \/ rollback_reservation(p)
        \/ rollback_commitment(p)

SpecRace == InitRace /\ [][NextRace]_vars

\* ------------------------------------------------- reading an invocation
Done(p) == pc[p] = "done"
Idx(p) == 1..Len(calls[p])
Issued(p, op) == {i \in Idx(p) : calls[p][i].op = op}
Succeeded(p, op) == {i \in Issued(p, op) : calls[p][i].ok}
Failed(p, op) == {i \in Issued(p, op) : ~calls[p][i].ok}
Deletes == {"delete_assignment", "delete_reservation", "delete_capacity_commitment"}
DeleteCalls(p) == {i \in Idx(p) : calls[p][i].op \in Deletes}
Operation(p) ==
    IF request[p].json /\ request[p].project_id # Absent THEN request[p].operation ELSE Absent

\* the scope and the slots the request asks for
RequestedScope(p) ==
    common_location_path(request[p].project_id,
        IF request[p].location = Absent THEN DefaultLocation ELSE request[p].location)
RequestedSlots(p) == int(get_slots(request[p].slots))

InScope(S, scope) == {x \in S : x.name.scope = scope}
AssignmentsInScope(S, scope) == {a \in S : a.name.parent.scope = scope}
Names(S) == {x.name : x \in S}
Targets(p, I) == {calls[p][i].target : i \in I}

\* ---------------------------------------------------------------- claims

\* C1 (in the case where the remote service accepts every delete it is sent):
\* when a purchase whose commitment purchase succeeded ends with an error,
\* none of the resources it created remains: no commitment, no reservation
\* and no assignment of this invocation exists in the remote state.
C1_NoResidue ==
    \A p \in Procs :
        (/\ Done(p)
         /\ Succeeded(p, "create_capacity_commitment") # {}
         /\ response[p].status # 200
         /\ \A i \in DeleteCalls(p) : calls[p][i].ok)
        => /\ local[p].commitment.name \notin Names(commitments)
           /\ local[p].reservation # NoName =>
                /\ local[p].reservation.name \notin Names(reservations)
                /\ list_assignments(local[p].reservation.name) = {}

\* C2: when createCommitment, createReservation and createAssignment all
\* succeed, the purchase adds exactly one commitment, one reservation and one
\* assignment to the remote state, the assignment's parent is that
\* reservation, the reservation's slot_capacity is the commitment's
\* slot_count, which is the requested number of slots, all three are in the
\* requested scope, no delete is issued, and the 200 response carries the
\* three names.
C2_SuccessfulPurchase ==
    \A p \in Procs :
        (/\ Succeeded(p, "create_capacity_commitment") # {}
         /\ Succeeded(p, "create_reservation") # {}
         /\ Succeeded(p, "create_assignment") # {})
        => /\ Done(p)
           /\ Len(calls[p]) = 3
           /\ DeleteCalls(p) = {}
           /\ pre[p].commitments \subseteq commitments
           /\ pre[p].reservations \subseteq reservations
           /\ pre[p].assignments \subseteq assignments
           /\ \E c \in commitments, r \in reservations, a \in assignments :
                /\ commitments \ pre[p].commitments = {c}
                /\ reservations \ pre[p].reservations = {r}
                /\ assignments \ pre[p].assignments = {a}
                /\ a.name.parent = r.name
                /\ r.slot_capacity = c.slot_count
                /\ c.slot_count = RequestedSlots(p)
                /\ c.name.scope = RequestedScope(p)
                /\ r.name.scope = RequestedScope(p)
                /\ response[p].status = 200
                /\ response[p].commitment = c.name
                /\ response[p].reservation = r.name
                /\ response[p].assignment = a.name

\* a purchase of a number of slots that is not the default has succeeded
C2_Witness ==
    \E p \in Procs :
        /\ Done(p)
        /\ response[p].status = 200
        /\ Succeeded(p, "create_assignment") # {}
        /\ RequestedSlots(p) = 2
        /\ \E r \in reservations : r.name = response[p].reservation /\ r.slot_capacity = 2

\* C3: if createAssignment fails after the commitment and the reservation
\* were created, then whatever the error, when the purchase has ended the
\* delete of the reservation was issued, after it the delete of the
\* commitment, and no assignment exists under the reservation.
C3_AssignmentFailureRollsBackBoth ==
    \A p \in Procs :
        (Done(p) /\ Failed(p, "create_assignment") # {})
        => /\ \E i, j \in Idx(p) :
                /\ i < j
                /\ calls[p][i].op = "delete_reservation"
                /\ calls[p][i].target = local[p].reservation.name
                /\ calls[p][j].op = "delete_capacity_commitment"
                /\ calls[p][j].target = local[p].commitment.name
           /\ list_assignments(local[p].reservation.name) = {}

\* C4: if createReservation fails after a successful commitment purchase,
\* createAssignment is never called, no deleteReservation is issued, and
\* when the purchase has ended with its error response the delete of the
\* commitment created in step 1 was issued after the failed create.
C4_ReservationFailureRollsBackCommitment ==
    \A p \in Procs : \A i \in Failed(p, "create_reservation") :
        /\ Issued(p, "create_assignment") = {}
        /\ Issued(p, "delete_reservation") = {}
        /\ Issued(p, "create_reservation") = {i}
        /\ Done(p) =>
             /\ response[p].status = 500
             /\ \E j \in Issued(p, "delete_capacity_commitment") :
                  /\ j > i
                  /\ calls[p][j].target = local[p].commitment.name
                  /\ calls[p][j].target \notin Names(pre[p].commitments)

\* createReservation failed and the commitment was then deleted
C4_Witness ==
    \E p \in Procs :
        /\ Done(p)
        /\ Failed(p, "create_reservation") # {}
        /\ Succeeded(p, "delete_capacity_commitment") # {}
        /\ local[p].commitment.name \notin Names(commitments)

\* C5: if createCommitment fails, the purchase ends with that error and has
\* issued no other remote call: no createReservation, no createAssignment
\* and no delete; the remote state is what it was.
C5_CommitmentFailureStopsPurchase ==
    \A p \in Procs : \A i \in Failed(p, "create_capacity_commitment") :
        /\ calls[p] = <<calls[p][i]>>
        /\ Done(p)
        /\ response[p] = handle_exception(calls[p][i].err)
        /\ response[p].status = 500
        /\ commitments = pre[p].commitments
        /\ reservations = pre[p].reservations
        /\ assignments = pre[p].assignments

\* createCommitment failed
C5_Witness ==
    \E p \in Procs :
        /\ Done(p)
        /\ Failed(p, "create_capacity_commitment") # {}
        /\ Operation(p) = "purchase"

\* C6: when step 2 or step 3 of the purchase fails and every compensating
\* delete that follows succeeds, the error of the 500 response is the error
\* raised by the failed create call, whatever kind of error it is.
C6_OriginalErrorPropagates ==
    \A p \in Procs :
        \A i \in Failed(p, "create_reservation") \cup Failed(p, "create_assignment") :
            (Done(p) /\ \A j \in DeleteCalls(p) : calls[p][j].ok)
            => /\ response[p].status = 500
               /\ response[p].error = calls[p][i].err

\* C7: no failure is swallowed: when a report, a cleanup or a purchase has
\* ended and one of its remote calls failed for good (a failed attempt of a
\* commitment delete that is retried does not count), the response has
\* status 500 and severity "error", never 200.
C7_NoFailureSwallowed ==
    \A p \in Procs :
        (Done(p) /\ \E i \in Idx(p) : ~calls[p][i].ok /\ calls[p][i].final)
        => /\ response[p].status = 500
           /\ response[p].severity = "error"
           /\ response[p].error # NoError

\* a commitment delete was retried, failed again and was given up, and the
\* invocation answered 500
C7_Witness ==
    \E p \in Procs : \E i, j \in Failed(p, "delete_capacity_commitment") :
        /\ Done(p)
        /\ i < j
        /\ ~calls[p][i].final
        /\ calls[p][j].final
        /\ response[p].status = 500

\* the assignments cleanup was given by its last listing
ListedAssignments(p) ==
    LET L == Succeeded(p, "list_assignments")
        k == CHOOSE x \in L : \A y \in L : y <= x
    IN  {calls[p][k].result[n].name : n \in 1..Len(calls[p][k].result)}

\* C8: during cleanup, a deleteReservation is issued only after the
\* assignments under that reservation were listed and a delete of each of
\* them was issued and succeeded; a deleteCommitment is issued only after
\* the reservations were listed and a delete of each of them succeeded; and
\* when cleanup is about to delete a reservation, none of the assignments
\* it listed under it exists.
C8_CleanupOrder ==
    \A p \in Procs : Operation(p) = "cleanup" =>
        /\ \A i \in Issued(p, "delete_reservation") :
             \E k \in Succeeded(p, "list_assignments") :
                /\ k < i
                /\ calls[p][k].target = calls[p][i].target
                /\ \A n \in 1..Len(calls[p][k].result) :
                     \E j \in Succeeded(p, "delete_assignment") :
                        /\ k < j
                        /\ j < i
                        /\ calls[p][j].target = calls[p][k].result[n].name
        /\ \A j \in Issued(p, "delete_capacity_commitment") :
             \E k \in Succeeded(p, "list_reservations") :
                /\ k < j
                /\ \A n \in 1..Len(calls[p][k].result) :
                     \E i \in Succeeded(p, "delete_reservation") :
                        /\ k < i
                        /\ i < j
                        /\ calls[p][i].target = calls[p][k].result[n].name
        /\ pc[p] = "cleanup_delete_reservation" =>
             ListedAssignments(p) \cap Names(assignments) = {}

\* cleanup has deleted two reservations with two assignments each and has
\* issued a commitment delete
C8_Witness ==
    \E p \in Procs :
        /\ Operation(p) = "cleanup"
        /\ Cardinality(Succeeded(p, "delete_assignment")) = 4
        /\ Cardinality(Succeeded(p, "delete_reservation")) = 2
        /\ Issued(p, "delete_capacity_commitment") # {}

\* C9: a cleanup in which no remote call fails, on a scope that holds N
\* reservations with A assignments each and M commitments, issues one
\* deleteAssignment per assignment of the scope (N*A), one deleteReservation
\* per reservation (N) and one commitment delete per commitment (M), none
\* twice and none outside the scope, logs one entry per delete, and leaves
\* the scope empty and every other scope as it was.
C9_CleanupDeletesEverythingOnce ==
    \A p \in Procs :
        (Done(p) /\ Operation(p) = "cleanup" /\ \A i \in Idx(p) : calls[p][i].ok)
        => LET scope == RequestedScope(p)
               A == AssignmentsInScope(pre[p].assignments, scope)
               R == InScope(pre[p].reservations, scope)
               C == InScope(pre[p].commitments, scope)
               dA == Issued(p, "delete_assignment")
               dR == Issued(p, "delete_reservation")
               dC == Issued(p, "delete_capacity_commitment")
           IN  /\ Cardinality(dA) = Cardinality(A)
               /\ Targets(p, dA) = Names(A)
               /\ \A r \in R :
                    Cardinality({i \in dA : calls[p][i].target.parent = r.name})
                        = Cardinality({a \in A : a.name.parent = r.name})
               /\ Cardinality(dR) = Cardinality(R)
               /\ Targets(p, dR) = Names(R)
               /\ Cardinality(dC) = Cardinality(C)
               /\ Targets(p, dC) = Names(C)
               /\ response[p].status = 200
               /\ Len(response[p].log) = Cardinality(dA) + Cardinality(dR) + Cardinality(dC)
               /\ \A n \in 1..Len(response[p].log) :
                    \E i \in DeleteCalls(p) : calls[p][i].target = response[p].log[n].name
               /\ commitments = pre[p].commitments \ C
               /\ reservations = pre[p].reservations \ R
               /\ assignments = pre[p].assignments \ A

\* a cleanup without failure of a scope with 2 reservations of 2 assignments
\* each and 2 commitments has ended
C9_Witness ==
    \E p \in Procs :
        /\ Done(p)
        /\ Operation(p) = "cleanup"
        /\ \A i \in Idx(p) : calls[p][i].ok
        /\ Cardinality(Issued(p, "delete_assignment")) = 2 * 2
        /\ Cardinality(Issued(p, "delete_reservation")) = 2
        /\ Cardinality(Issued(p, "delete_capacity_commitment")) = 2
        /\ Cardinality(InScope(pre[p].reservations, RequestedScope(p))) = 2
        /\ \A r \in InScope(pre[p].reservations, RequestedScope(p)) :
             Cardinality({a \in pre[p].assignments : a.name.parent = r.name}) = 2

\* C10: any two purchase transactions of the running process use different
\* reservation names: no two CreateReservationRequests carry the same
\* reservation_id.
C10_ReservationNamesDiffer ==
    \A i, j \in 1..Len(used) : i # j => used[i] # used[j]

\* C11: status and severity of every response agree: a 200 response has
\* severity "info", and a response with status 400 or 500 (no body, no
\* project_id, unknown operation, exception) has severity "error".
C11_StatusSeverityAgree ==
    \A p \in Procs :
        (Done(p) /\ response[p] # NoResponse)
        => /\ response[p].status \in {200, 400, 500}
           /\ response[p].status = 200 => response[p].severity = "info"
           /\ response[p].status \in {400, 500} => response[p].severity = "error"

Invalid(p) == ~request[p].json \/ request[p].project_id = Absent

\* C12: a request without a JSON body or without project_id is answered
\* with status 400 and severity "error" whatever its other fields are, and a
\* request that fails this validation or whose operation is absent or
\* unknown is answered without any remote call and leaves the remote state
\* as it was.
C12_ValidationBeforeRemoteCalls ==
    \A p \in Procs : pc[p] # "idle" =>
        /\ Invalid(p) =>
             /\ Done(p)
             /\ response[p].status = 400
             /\ response[p].severity = "error"
        /\ (Invalid(p) \/ request[p].operation \notin {"report", "cleanup", "purchase"}) =>
             /\ Done(p)
             /\ calls[p] = <<>>
             /\ commitments = pre[p].commitments
             /\ reservations = pre[p].reservations
             /\ assignments = pre[p].assignments

\* a purchase request with location and slots but without project_id was
\* answered 400
C12_Witness ==
    \E p \in Procs :
        /\ Done(p)
        /\ request[p].json
        /\ request[p].project_id = Absent
        /\ request[p].operation = "purchase"
        /\ request[p].location # Absent
        /\ request[p].slots.k = "float"
        /\ response[p].status = 400

Lists == {"list_reservations", "list_assignments", "list_capacity_commitments"}

\* the log of a report of reservations rs, assignments A and commitments C
RECURSIVE ReservationEntries(_, _)
ReservationEntries(rs, A) ==
    IF rs = <<>> THEN <<>>
    ELSE LET as == Listing({a \in A : a.name.parent = Head(rs).name})
         IN  <<LogEntry("Reservation", Head(rs).name)>>
             \o [i \in 1..Len(as) |-> LogEntry("Assignment", as[i].name)]
             \o ReservationEntries(Tail(rs), A)

CommitmentEntries(C) ==
    LET cs == Listing(C) IN [i \in 1..Len(cs) |-> LogEntry("Commitment", cs[i].name)]

\* C13: report has no side effect: it issues only list calls, the remote
\* state stays what it was when report started, and the log of its 200
\* response names each reservation of the scope followed by the assignments
\* of that reservation, and then every commitment of the scope.
C13_ReportHasNoSideEffect ==
    \A p \in Procs : (pc[p] # "idle" /\ Operation(p) = "report") =>
        /\ \A i \in Idx(p) : calls[p][i].op \in Lists
        /\ commitments = pre[p].commitments
        /\ reservations = pre[p].reservations
        /\ assignments = pre[p].assignments
        /\ (Done(p) /\ \A i \in Idx(p) : calls[p][i].ok) =>
             /\ response[p].status = 200
             /\ Len(calls[p]) = 2 + Cardinality(InScope(pre[p].reservations, RequestedScope(p)))
             /\ response[p].log =
                  ReservationEntries(Listing(InScope(pre[p].reservations, RequestedScope(p))),
                                     pre[p].assignments)
                  \o CommitmentEntries(InScope(pre[p].commitments, RequestedScope(p)))

\* a report of a scope with two reservations that have assignments, and
\* with commitments, has ended
C13_Witness ==
    \E p \in Procs :
        /\ Done(p)
        /\ Operation(p) = "report"
        /\ response[p].status = 200
        /\ Cardinality(InScope(reservations, RequestedScope(p))) = 2
        /\ Cardinality(AssignmentsInScope(assignments, RequestedScope(p))) >= 2
        /\ InScope(commitments, RequestedScope(p)) # {}
        /\ Len(response[p].log) >= 5

\* C14: if a compensating delete of the purchase fails, the error of the
\* 500 response is the error of that delete and not the error of the failed
\* create: after a failed reservation rollback the commitment delete is
\* still attempted, and the error that reaches the caller is the one raised
\* by the last delete that failed (RetryError is what delete_commitment
\* raises when its retry has given up).
C14_RollbackFailureMasksOriginal ==
    \A p \in Procs :
        (/\ Done(p)
         /\ Operation(p) = "purchase"
         /\ \E i \in DeleteCalls(p) : ~calls[p][i].ok /\ calls[p][i].final)
        => /\ response[p].status = 500
           /\ \A i \in Failed(p, "delete_reservation") :
                \E j \in Issued(p, "delete_capacity_commitment") :
                   /\ j > i
                   /\ calls[p][j].target = local[p].commitment.name
           /\ IF \E j \in Failed(p, "delete_capacity_commitment") : calls[p][j].final
                THEN response[p].error = RetryError
                ELSE \E i \in Failed(p, "delete_reservation") :
                        response[p].error = calls[p][i].err
           /\ \A i \in Failed(p, "create_reservation") \cup Failed(p, "create_assignment") :
                response[p].error # calls[p][i].err

\* the reservation rollback failed, the commitment was deleted, and the
\* response carries the error of the reservation delete
C14_Witness ==
    \E p \in Procs :
        /\ Done(p)
        /\ Failed(p, "create_assignment") # {}
        /\ Failed(p, "delete_reservation") # {}
        /\ Succeeded(p, "delete_capacity_commitment") # {}
        /\ response[p].error.src = "delete_reservation"

\* C15: every invocation of delete_commitment sends the remote
\* deleteCommitment at most 2 times, the second time only after the first
\* attempt failed, and fails if both attempts fail; every other remote call
\* is attempted once, and its failure ends the handler's use of that call
\* without a retry.
C15_CommitmentDeleteAtMostTwice ==
    \A p \in Procs :
        /\ \A i \in Issued(p, "delete_capacity_commitment") :
             /\ Cardinality({j \in Issued(p, "delete_capacity_commitment") :
                                calls[p][j].target = calls[p][i].target}) <= 2
             /\ \A j \in Issued(p, "delete_capacity_commitment") :
                  (j > i /\ calls[p][j].target = calls[p][i].target) => ~calls[p][i].ok
        /\ \A i, j \in Idx(p) :
             (/\ i < j
              /\ calls[p][i].op # "delete_capacity_commitment"
              /\ calls[p][i].op = calls[p][j].op)
             => calls[p][i].target # calls[p][j].target
        /\ \A i \in Idx(p) :
             calls[p][i].op # "delete_capacity_commitment" => calls[p][i].final

Remaining(S, p, op) == {x \in S : x.name \notin Targets(p, Succeeded(p, op))}

\* C16: in cleanup, the first call that fails for good (a delete, after the
\* retry of a commitment delete has given up, or a listing) is the last call
\* of the teardown: the handler has ended with the error as a 500 response
\* that carries no log, and exactly the resources deleted before the failure
\* are gone (nothing is created or restored).
C16_CleanupAbortsOnFirstFailure ==
    \A p \in Procs : (pc[p] # "idle" /\ Operation(p) = "cleanup") =>
        /\ \A i \in Idx(p) : calls[p][i].op \in Lists \cup Deletes
        /\ commitments = Remaining(pre[p].commitments, p, "delete_capacity_commitment")
        /\ reservations = Remaining(pre[p].reservations, p, "delete_reservation")
        /\ assignments = Remaining(pre[p].assignments, p, "delete_assignment")
        /\ \A i \in Idx(p) :
             (~calls[p][i].ok /\ calls[p][i].final) =>
                /\ i = Len(calls[p])
                /\ Done(p)
                /\ response[p].status = 500
                /\ response[p].log = <<>>
                /\ response[p].error =
                     IF calls[p][i].op = "delete_capacity_commitment"
                       THEN RetryError ELSE calls[p][i].err

\* cleanup deleted an assignment, then a reservation delete failed, and the
\* deleted assignment is still gone
C16_Witness ==
    \E p \in Procs :
        /\ Done(p)
        /\ Operation(p) = "cleanup"
        /\ Succeeded(p, "delete_assignment") # {}
        /\ Failed(p, "delete_reservation") # {}
        /\ response[p].status = 500
        /\ assignments # pre[p].assignments

\* C17: on every path of a purchase the only resources it deletes are ones
\* it created: a reservation delete targets the name this invocation's
\* createReservation returned, a commitment delete targets the name this
\* invocation's createCommitment returned, no assignment is deleted, and
\* every commitment, reservation and assignment that existed before the
\* purchase still exists, unchanged.
C17_PurchaseDeletesOnlyItsOwn ==
    \A p \in Procs : (pc[p] # "idle" /\ Operation(p) = "purchase") =>
        /\ pre[p].commitments \subseteq commitments
        /\ pre[p].reservations \subseteq reservations
        /\ pre[p].assignments \subseteq assignments
        /\ Issued(p, "delete_assignment") = {}
        /\ \A i \in Issued(p, "delete_reservation") :
             /\ calls[p][i].target \notin Names(pre[p].reservations)
             /\ \E k \in Succeeded(p, "create_reservation") :
                  k < i /\ calls[p][k].target = calls[p][i].target
        /\ \A i \in Issued(p, "delete_capacity_commitment") :
             /\ calls[p][i].target \notin Names(pre[p].commitments)
             /\ calls[p][i].target = local[p].commitment.name
             /\ \E k \in Succeeded(p, "create_capacity_commitment") : k < i

\* a purchase on a scope that held resources has rolled back its
\* reservation and its commitment
C17_Witness ==
    \E p \in Procs :
        /\ Done(p)
        /\ Operation(p) = "purchase"
        /\ Succeeded(p, "delete_reservation") # {}
        /\ Succeeded(p, "delete_capacity_commitment") # {}
        /\ InScope(pre[p].commitments, RequestedScope(p)) # {}
        /\ InScope(pre[p].reservations, RequestedScope(p)) # {}
        /\ pre[p].assignments # {}

\* C18: when two purchases run interleaved against the same scope with the
\* same reservation name, the rollback of one never deletes what the other
\* created: the commitment, the reservation and the assignment of a purchase
\* that returned success are present from then on, in particular when the
\* other purchase has ended, whether it succeeded or failed.
C18_RollbackSparesTheOther ==
    \A t \in purchased :
        /\ t.commitment \in Names(commitments)
        /\ t.reservation \in Names(reservations)
        /\ t.assignment \in Names(assignments)

\* the two purchases overlapped and used the same reservation name; one
\* returned success, the other found the name taken and rolled its
\* commitment back
C18_Witness ==
    \E p \in Racers : \E q \in Racers \ {p} :
        /\ Done(p) /\ Done(q)
        /\ response[p].status = 200
        /\ response[q].status = 500
        /\ \E t \in purchased : t.commitment = response[p].commitment
        /\ \E i \in Failed(q, "create_reservation") :
             calls[q][i].target = response[p].reservation
        /\ Succeeded(q, "delete_capacity_commitment") # {}
        /\ Succeeded(p, "create_assignment") # {}

Creates == {"create_capacity_commitment", "create_reservation", "create_assignment"}
Compensations == {"delete_reservation", "delete_capacity_commitment"}

\* C19: every purchase ends with a response whatever remote calls fail: it is
\* never stuck before it has answered and every step sends one remote call,
\* of which it sends a bounded number; it sends each create at most once, in
\* the order commitment, reservation, assignment, each only after the one
\* before it succeeded; after a failed call it sends nothing but compensating
\* deletes; it sends at most one reservation delete and runs delete_commitment
\* at most once (its attempts follow each other, on one commitment, and end
\* the invocation).
C19_PurchaseTerminates ==
    \A p \in Procs : (pc[p] # "idle" /\ Operation(p) = "purchase") =>
        /\ ~Done(p) => ENABLED Step(p)
        /\ Len(calls[p]) <= 3 + 1 + MaxAttempts
        /\ Done(p) => response[p].status \in {200, 500}
        /\ \A i \in Idx(p) : calls[p][i].op \in Creates \cup Compensations
        /\ \A op \in Creates : Cardinality(Issued(p, op)) <= 1
        /\ \A i \in Issued(p, "create_reservation") :
             \E k \in Succeeded(p, "create_capacity_commitment") : k < i
        /\ \A i \in Issued(p, "create_assignment") :
             \E k \in Succeeded(p, "create_reservation") : k < i
        /\ \A i \in Idx(p) : \A j \in Idx(p) :
             (i < j /\ ~calls[p][i].ok) => calls[p][j].op \in Compensations
        /\ Cardinality(Issued(p, "delete_reservation")) <= 1
        /\ Cardinality(Issued(p, "delete_capacity_commitment")) <= MaxAttempts
        /\ \A i \in Issued(p, "delete_capacity_commitment") :
             /\ calls[p][i].target = local[p].commitment.name
             /\ \A j \in Idx(p) : i < j => calls[p][j].op = "delete_capacity_commitment"
             /\ (calls[p][i].ok \/ calls[p][i].final) => (i = Len(calls[p]) /\ Done(p))

\* a purchase has sent its three creates, the last of which failed, and has
\* ended after the reservation delete and a repeated commitment delete
C19_Witness ==
    \E p \in Procs :
        /\ Done(p)
        /\ Operation(p) = "purchase"
        /\ response[p].status = 500
        /\ Failed(p, "create_assignment") # {}
        /\ Issued(p, "delete_reservation") # {}
        /\ Cardinality(Issued(p, "delete_capacity_commitment")) >= 2
        /\ Succeeded(p, "delete_capacity_commitment") # {}
====
